---- MODULE Spec2Model ----
(***************************************************************************)
(* Model of src/src/hooks/useLiveAPI.ts: the duplex audio pipeline of the  *)
(* useLiveAPI hook (capture tap, activity flags, volume meter, playback    *)
(* scheduling, interruption and teardown).                                 *)
(*                                                                         *)
(* Numbers.  Samples, RMS values and the volume are exact rationals,       *)
(* written <<numerator, denominator>> in lowest terms with a positive      *)
(* denominator.  Times are integers counting 1/TimeRes seconds.            *)
(***************************************************************************)
EXTENDS Integers, Sequences, FiniteSets, TLC

----------------------------------------------------------------------------
(* Rational arithmetic *)

Abs(n) == IF n < 0 THEN -n ELSE n

Max(a, b) == IF a >= b THEN a ELSE b

Min(a, b) == IF a <= b THEN a ELSE b

RECURSIVE GCD(_, _)
GCD(a, b) == IF b = 0 THEN a ELSE GCD(b, a % b)

Rat(n, d) ==
    LET g == GCD(Abs(n), Abs(d))
        s == IF d < 0 THEN -1 ELSE 1
    IN  IF g = 0 THEN <<0, 1>> ELSE <<(s * n) \div g, (s * d) \div g>>

Zero == <<0, 1>>

RatAdd(a, b) == Rat(a[1] * b[2] + b[1] * a[2], a[2] * b[2])

RatMul(a, b) == Rat(a[1] * b[1], a[2] * b[2])

RatScale(k, a) == Rat(k * a[1], a[2])

RatDivInt(a, k) == Rat(a[1], a[2] * k)

RatLess(a, b) == a[1] * b[2] < b[1] * a[2]

\* Truncation toward zero of a rational (the integer conversion of a typed array).
Trunc(a) == IF a[1] >= 0 THEN a[1] \div a[2] ELSE -((-a[1]) \div a[2])

\* Floor of the square root of a natural number.
RECURSIVE ISqrt(_)
ISqrt(n) ==
    IF n < 2 THEN n
    ELSE LET s == 2 * ISqrt(n \div 4)
         IN  IF (s + 1) * (s + 1) <= n THEN s + 1 ELSE s

\* Math.sqrt on a rational; exact whenever the root is rational, which is the
\* case for every block the model feeds to it.
Sqrt(a) == Rat(ISqrt(a[1]), ISqrt(a[2]))

\* Math.sqrt(0 / 0): the RMS of a block of no samples.
NaN == <<0, 0>>

----------------------------------------------------------------------------
(* Program constants *)

\* Sample rate of the buffers handed to the sink (createBuffer(1, n, 24000)).
PlaybackRate == 24000

\* Time units per second: one unit is one playback sample period.
TimeRes == PlaybackRate

\* rms > 0.01
Threshold == Rat(1, 100)

\* setTimeout(..., 500), in time units.
Hangover == TimeRes \div 2

\* A tolerance of a whole second: currentTime >= nextStartTimeRef.current - 1.
EndEpsilon_Second == TimeRes

\* currentTime >= nextStartTimeRef.current - 0.1, in time units.
EndEpsilon == TimeRes \div 10

\* float32Data[i] = pcmData[i] / 32768.0
DecodeScale == 32768

\* The sample scaled by the decoder's divisor, 0x8000, instead of 0x7FFF.
EncodeScale_DecodeScale == DecodeScale

\* pcmData[i] = clamp(x) * 0x7FFF
EncodeScale == 32767

----------------------------------------------------------------------------
(* Bounds of the model *)

\* The sink's clock is followed for this many ticks per audio context.
MaxTicks == 6

\* Segments handed to the sink and not yet reported as ended.
MaxPending == 2

\* Entries of the message log.
MaxMessages == 1

\* Invocations of connect() in one run.
MaxConnects == 1

\* The codec is applied to the samples k / GridDen with |k| <= GridMax.
GridDen == 100

GridMax == 150

\* Time advances in steps of a tenth of a second.
TickLen == TimeRes \div 10

MaxTime == MaxTicks * TickLen

----------------------------------------------------------------------------
(* Sample codec and energy *)

\* The sample taken as it is, with no Math.max / Math.min around it.
Clamp_None(x) == x

\* Math.max(-1, Math.min(1, x))
Clamp(x) ==
    IF RatLess(<<1, 1>>, x) THEN <<1, 1>>
    ELSE IF RatLess(x, <<-1, 1>>) THEN <<-1, 1>>
    ELSE x

\* Storing a number into an Int16Array: truncate toward zero, wrap modulo 2^16.
ToInt16(x) ==
    LET t == Trunc(x)
        m == ((t % 65536) + 65536) % 65536
    IN  IF m >= 32768 THEN m - 65536 ELSE m

\* pcmData[i] = Math.max(-1, Math.min(1, inputData[i])) * 0x7FFF
EncodeSample(x) == ToInt16(RatScale(EncodeScale, Clamp(x)))

EncodeBlock(block) == [i \in 1..Len(block) |-> EncodeSample(block[i])]

\* float32Data[i] = pcmData[i] / 32768.0
DecodeSample(p) == Rat(p, DecodeScale)

\* The two bytes of a 16-bit signed integer in pcmData.buffer, low byte first.
Int16Bytes(p) ==
    LET u == (p + 65536) % 65536
    IN  <<u % 256, u \div 256>>

\* One little-endian 16-bit signed integer from two bytes.
Int16LE(lo, hi) ==
    LET u == lo + 256 * hi
    IN  IF u >= 32768 THEN u - 65536 ELSE u

\* The bytes of an encoded block read back as an Int16Array and scaled to
\* floats, sample by sample.
DecodeBlock(pcm) ==
    [i \in 1..Len(pcm) |->
        DecodeSample(Int16LE(Int16Bytes(pcm[i])[1], Int16Bytes(pcm[i])[2]))]

RECURSIVE SumSquares(_)
SumSquares(block) ==
    IF block = <<>> THEN Zero
    ELSE RatAdd(RatMul(Head(block), Head(block)), SumSquares(Tail(block)))

\* Math.sqrt(sum / inputData.length) over a captured block.
InputRms(block) == Sqrt(RatDivInt(SumSquares(block), Len(block)))

\* An inbound audio payload: armored says whether atob accepts the text, and
\* the bytes it yields are nbytes bytes alternating lo, hi (every whole
\* sample of the payload has the same value).
Frame(armored, lo, hi, nbytes) ==
    [armored |-> armored, lo |-> lo, hi |-> hi, nbytes |-> nbytes]

\* new Int16Array(bytes.buffer) throws unless the byte length is even.
FrameDecodes(f) == f.armored /\ f.nbytes % 2 = 0

FrameSamples(f) == f.nbytes \div 2

\* Math.sqrt(sum / pcmData.length) over the decoded samples of a payload.
OutputRms(f) ==
    LET n == FrameSamples(f)
        x == DecodeSample(Int16LE(f.lo, f.hi))
    IN  IF n = 0 THEN NaN
        ELSE Sqrt(RatDivInt(RatScale(n, RatMul(x, x)), n))

\* The duration computed at the capture rate instead of the buffer's own.
Duration_CaptureRate(n) == (n * TimeRes) \div 16000

\* audioBuffer.duration = length / sampleRate, in time units.
Duration(n) == (n * TimeRes) \div PlaybackRate

----------------------------------------------------------------------------
(* Inputs *)

\* Captured blocks (e.inputBuffer.getChannelData(0)): silence, a block whose
\* RMS is exactly the threshold, and speech.
InputBlocks ==
    { <<Zero, Zero>>,
      <<Rat(1, 100), Rat(-1, 100)>>,
      <<Rat(1, 2), Rat(-1, 2)>> }

\* Inbound audio payloads: 0.05 s and 1 s of speech, 0.05 s of silence, a
\* payload with a dangling byte, and one that atob rejects.
AudioFrames ==
    { Frame(TRUE, 0, 32, 2400),
      Frame(TRUE, 0, 32, 48000),
      Frame(TRUE, 0, 0, 2400),
      Frame(TRUE, 0, 32, 4801),
      Frame(FALSE, 0, 32, 4800) }

NoFrame == Frame(TRUE, 0, 0, 0)

\* Blocks the codec is applied to on its own: every single sample of the
\* grid (in and out of [-1, 1]), a block of silence, a block of half and full
\* scale samples of both signs, and a block of samples out of range.
CodecBlocks ==
    { <<Rat(k, GridDen)>> : k \in (-GridMax)..GridMax }
    \cup { <<Zero, Zero, Zero, Zero>>,
           <<Rat(1, 2), Rat(-1, 2), Rat(1, 1), Rat(-1, 1)>>,
           <<Rat(3, 2), Rat(-3, 2), Rat(2, 1), Rat(-2, 1)>> }

\* A LiveServerMessage, reduced to the fields onmessage reads: the payload
\* of parts[0].inlineData.data (if any and non-empty), serverContent.interrupted,
\* and whether outputTranscription.text / inputTranscription.text are non-empty.
InboundMessages ==
    { [hasAudio |-> TRUE, audio |-> f, interrupted |-> i,
       modelText |-> FALSE, userText |-> FALSE] :
         f \in AudioFrames, i \in BOOLEAN }
    \cup
    { [hasAudio |-> FALSE, audio |-> NoFrame, interrupted |-> i,
       modelText |-> mt, userText |-> ut] :
         i \in BOOLEAN, mt \in BOOLEAN, ut \in BOOLEAN }
    \cup
    { [hasAudio |-> TRUE, audio |-> Frame(TRUE, 0, 32, 4801), interrupted |-> FALSE,
       modelText |-> TRUE, userText |-> TRUE] }

----------------------------------------------------------------------------
(* State *)

VARIABLES
    \* React state of the hook
    isConnected, isAITalking, isUserTalking, volume, messages, error,
    \* refs of the hook
    sessionRef,             \* "null", "live" (an open session), "dead" (a closed one)
    audioContextRef,        \* TRUE when the ref holds a context
    streamRef,              \* TRUE when the ref holds a stream
    nextStartTimeRef,       \* the playback clock
    processorRef,           \* TRUE when the ref holds a tap
    userTalkingTimeoutRef,  \* the hangover timer the ref points at
    \* the connect() call in progress
    connectPc,              \* "idle", "awaitMic", "awaitSession"
    connectClosure,         \* isAITalking as captured by that call
    connects,               \* how many times connect() was invoked
    \* the world outside the hook
    tapHandler,             \* onaudioprocess of the tap in processorRef
    orphanTaps,             \* live taps no ref holds, counted by handler
    orphanContexts,         \* open contexts no ref holds
    orphanStreams,          \* live streams no ref holds
    orphanSessions,         \* open sessions no ref holds
    currentTime,            \* audioContextRef.current.currentTime
    segments,               \* segments handed to the sink, not yet reported ended
    inflight,               \* a callback dispatched before its source went away
    closeInflight,          \* a close event still to come from a session that was closed
    \* history, read by the properties only
    tornDown,               \* stopAudio ran and connect was not invoked since
    sinceLoud,              \* time since the last block above the threshold, -1 if none
    lastEnd,                \* start + duration of the segment scheduled last, -1 if
                            \* none was since the clock was last reset
    \* the buffers of the sample codec, followed on their own by CodecSpec
    inputData,              \* a captured block (Float32Array)
    pcmData,                \* its encoding (Int16Array), <<>> before it is encoded
    float32Data             \* the encoding decoded again, <<>> before it is decoded

hookVars ==
    <<isConnected, isAITalking, isUserTalking, volume, messages, error,
      sessionRef, audioContextRef, streamRef, nextStartTimeRef, processorRef,
      userTalkingTimeoutRef>>

connectVars == <<connectPc, connectClosure, connects>>

worldVars ==
    <<tapHandler, orphanTaps, orphanContexts, orphanStreams, orphanSessions,
      currentTime, segments, inflight, closeInflight>>

historyVars == <<tornDown, sinceLoud, lastEnd>>

codecVars == <<inputData, pcmData, float32Data>>

vars == <<hookVars, connectVars, worldVars, historyVars, codecVars>>

NoTimer == [pending |-> FALSE, left |-> 0, closure |-> FALSE, stale |-> FALSE]

Handlers == {"none", "F", "T"}

NoTaps == [h \in Handlers |-> 0]

\* The onaudioprocess handler whose closure captured isAITalking = c.
HandlerOf(c) == IF c THEN "T" ELSE "F"

Captured(h) == h = "T"

HookInit ==
    /\ isConnected = FALSE
    /\ isAITalking = FALSE
    /\ isUserTalking = FALSE
    /\ volume = Zero
    /\ messages = <<>>
    /\ error = "null"
    /\ sessionRef = "null"
    /\ audioContextRef = FALSE
    /\ streamRef = FALSE
    /\ nextStartTimeRef = 0
    /\ processorRef = FALSE
    /\ userTalkingTimeoutRef = NoTimer
    /\ connectPc = "idle"
    /\ connectClosure = FALSE
    /\ connects = 0
    /\ tapHandler = "none"
    /\ orphanTaps = NoTaps
    /\ orphanContexts = 0
    /\ orphanStreams = 0
    /\ orphanSessions = 0
    /\ currentTime = 0
    /\ segments = <<>>
    /\ inflight = "none"
    /\ closeInflight = FALSE
    /\ tornDown = FALSE
    /\ sinceLoud = -1
    /\ lastEnd = -1

Init ==
    /\ HookInit
    /\ inputData = <<>>
    /\ pcmData = <<>>
    /\ float32Data = <<>>

----------------------------------------------------------------------------
(* stopAudio *)

\* The part of the hook stopAudio reads and writes.
Audio ==
    [processorRef |-> processorRef, audioContextRef |-> audioContextRef,
     streamRef |-> streamRef, isAITalking |-> isAITalking,
     isUserTalking |-> isUserTalking, volume |-> volume,
     nextStartTimeRef |-> nextStartTimeRef]

FreshAudio ==
    [processorRef |-> FALSE, audioContextRef |-> FALSE, streamRef |-> FALSE,
     isAITalking |-> FALSE, isUserTalking |-> FALSE, volume |-> Zero,
     nextStartTimeRef |-> 0]

\* stopAudio without "processorRef.current = null".
stopAudio_KeepsTapRef(a) ==
    [audio |->
        [processorRef |-> a.processorRef,
         audioContextRef |-> IF a.audioContextRef THEN FALSE ELSE a.audioContextRef,
         streamRef |-> IF a.streamRef THEN FALSE ELSE a.streamRef,
         isAITalking |-> FALSE,
         isUserTalking |-> FALSE,
         volume |-> Zero,
         nextStartTimeRef |-> 0],
     released |->
        (IF a.processorRef THEN {"tap"} ELSE {})
        \cup (IF a.audioContextRef THEN {"context"} ELSE {})
        \cup (IF a.streamRef THEN {"stream"} ELSE {})]

\* stopAudio as a function: the audio state it leaves and the release calls
\* it makes (disconnect() on the tap, close() on the context, stop() on the
\* tracks of the stream), each made only on a ref that holds something.
stopAudio(a) ==
    [audio |->
        [processorRef |-> IF a.processorRef THEN FALSE ELSE a.processorRef,
         audioContextRef |-> IF a.audioContextRef THEN FALSE ELSE a.audioContextRef,
         streamRef |-> IF a.streamRef THEN FALSE ELSE a.streamRef,
         isAITalking |-> FALSE,
         isUserTalking |-> FALSE,
         volume |-> Zero,
         nextStartTimeRef |-> 0],
     released |->
        (IF a.processorRef THEN {"tap"} ELSE {})
        \cup (IF a.audioContextRef THEN {"context"} ELSE {})
        \cup (IF a.streamRef THEN {"stream"} ELSE {})]

SegmentEnd(g) == g.start + g.dur

\* Some segment has finished rendering and its ended event was not handled yet.
SomeSegmentFinished ==
    \E i \in 1..Len(segments) : SegmentEnd(segments[i]) <= currentTime

\* The hangover timer stopAudio leaves behind: it clears no timer, so a
\* pending one stays pending (stale marks it as armed before a teardown).
TimerAfterStop(t) == IF t.pending THEN [t EXCEPT !.stale = TRUE] ELSE t

\* stopAudio as a step.  A released tap raises no further audioprocess event,
\* a closed context no further ended event and a closed session (closing) no
\* further message event, but one that was already dispatched may still be
\* handled: at most one such callback is followed.
StopAudio(closing) ==
    LET r == stopAudio(Audio) IN
    /\ inflight' \in
         {inflight}
         \cup (IF tapHandler # "none" THEN {tapHandler} ELSE {})
         \cup (IF SomeSegmentFinished THEN {"ended"} ELSE {})
         \cup (IF closing THEN {"message"} ELSE {})
    /\ processorRef' = r.audio.processorRef
    /\ audioContextRef' = r.audio.audioContextRef
    /\ streamRef' = r.audio.streamRef
    /\ isAITalking' = r.audio.isAITalking
    /\ isUserTalking' = r.audio.isUserTalking
    /\ volume' = r.audio.volume
    /\ nextStartTimeRef' = r.audio.nextStartTimeRef
    /\ userTalkingTimeoutRef' = TimerAfterStop(userTalkingTimeoutRef)
    /\ tapHandler' = IF "tap" \in r.released THEN "none" ELSE tapHandler
    /\ segments' = IF "context" \in r.released THEN <<>> ELSE segments
    /\ currentTime' = IF "context" \in r.released THEN 0 ELSE currentTime
    /\ tornDown' = TRUE
    /\ sinceLoud' = -1
    /\ lastEnd' = -1
    /\ UNCHANGED <<messages, orphanTaps, orphanContexts, orphanStreams,
                   codecVars>>

----------------------------------------------------------------------------
(* connect *)

\* connect() up to its first await: the context is created (a context the
\* ref already held is left open with whatever it was rendering) and the
\* call's closure captures the isAITalking of the render that made it.
ConnectStart ==
    /\ connectPc = "idle"
    /\ connects < MaxConnects
    /\ connects' = connects + 1
    /\ audioContextRef' = TRUE
    /\ orphanContexts' = IF audioContextRef THEN orphanContexts + 1 ELSE orphanContexts
    /\ currentTime' = 0
    /\ segments' = <<>>
    /\ inflight' \in {inflight} \cup (IF segments # <<>> THEN {"ended"} ELSE {})
    /\ connectClosure' = isAITalking
    /\ connectPc' = "awaitMic"
    /\ tornDown' = FALSE
    /\ UNCHANGED <<isConnected, isAITalking, isUserTalking, volume, messages, error,
                   sessionRef, streamRef, nextStartTimeRef, processorRef,
                   userTalkingTimeoutRef, tapHandler, orphanTaps, orphanStreams,
                   orphanSessions, closeInflight, sinceLoud, lastEnd,
                   codecVars>>

\* getUserMedia resolves: the stream is stored, then the tap is created on
\* audioContextRef.current (a TypeError, caught, if stopAudio emptied it
\* meanwhile) and ai.live.connect is called.
MicGranted ==
    /\ connectPc = "awaitMic"
    /\ streamRef' = TRUE
    /\ orphanStreams' = IF streamRef THEN orphanStreams + 1 ELSE orphanStreams
    /\ IF audioContextRef
         THEN /\ processorRef' = TRUE
              /\ orphanTaps' = IF processorRef
                                 THEN [orphanTaps EXCEPT ![tapHandler] = @ + 1]
                                 ELSE orphanTaps
              /\ tapHandler' = "none"
              /\ connectPc' = "awaitSession"
              /\ error' = error
         ELSE /\ error' = "connect"
              /\ connectPc' = "idle"
              /\ UNCHANGED <<processorRef, orphanTaps, tapHandler>>
    /\ UNCHANGED <<isConnected, isAITalking, isUserTalking, volume, messages,
                   sessionRef, audioContextRef, nextStartTimeRef,
                   userTalkingTimeoutRef, connectClosure, connects,
                   orphanContexts, orphanSessions, currentTime, segments,
                   inflight, closeInflight, historyVars, codecVars>>

\* getUserMedia rejects and the call asks for the microphone again.
MicDenied_Retries ==
    /\ connectPc = "awaitMic"
    /\ error' = "connect"
    /\ connectPc' = "awaitMic"
    /\ UNCHANGED <<isConnected, isAITalking, isUserTalking, volume, messages,
                   sessionRef, audioContextRef, streamRef, nextStartTimeRef,
                   processorRef, userTalkingTimeoutRef, connectClosure, connects,
                   worldVars, historyVars, codecVars>>

\* getUserMedia rejects: the catch block sets the error.
MicDenied ==
    /\ connectPc = "awaitMic"
    /\ error' = "connect"
    /\ connectPc' = "idle"
    /\ UNCHANGED <<isConnected, isAITalking, isUserTalking, volume, messages,
                   sessionRef, audioContextRef, streamRef, nextStartTimeRef,
                   processorRef, userTalkingTimeoutRef, connectClosure, connects,
                   worldVars, historyVars, codecVars>>

\* The session opens: onopen runs (the handler goes on the tap this call
\* created, which fires only if stopAudio has not released it), then the
\* awaited promise resolves and the session is stored.
SessionOpened ==
    /\ connectPc = "awaitSession"
    /\ isConnected' = TRUE
    /\ error' = "null"
    /\ tapHandler' = IF processorRef THEN HandlerOf(connectClosure) ELSE "none"
    /\ orphanSessions' = IF sessionRef = "live" THEN orphanSessions + 1 ELSE orphanSessions
    /\ sessionRef' = "live"
    /\ connectPc' = "idle"
    /\ UNCHANGED <<isAITalking, isUserTalking, volume, messages, audioContextRef,
                   streamRef, nextStartTimeRef, processorRef, userTalkingTimeoutRef,
                   connectClosure, connects, orphanTaps, orphanContexts,
                   orphanStreams, currentTime, segments, inflight,
                   closeInflight, historyVars, codecVars>>

\* The awaited session promise rejects: the catch block sets the error.
SessionRejected ==
    /\ connectPc = "awaitSession"
    /\ error' = "connect"
    /\ connectPc' = "idle"
    /\ UNCHANGED <<isConnected, isAITalking, isUserTalking, volume, messages,
                   sessionRef, audioContextRef, streamRef, nextStartTimeRef,
                   processorRef, userTalkingTimeoutRef, connectClosure, connects,
                   worldVars, historyVars, codecVars>>

----------------------------------------------------------------------------
(* disconnect, onclose, onerror *)

\* disconnect(): close and forget the session if there is one, stopAudio,
\* setIsConnected(false).  An open session that is closed still delivers its
\* close event later.
Disconnect ==
    /\ sessionRef' = "null"
    /\ closeInflight' = (closeInflight \/ sessionRef = "live")
    /\ StopAudio(sessionRef = "live")
    /\ isConnected' = FALSE
    /\ UNCHANGED <<error, connectVars, orphanSessions>>

\* Where a close or error event comes from: the session in sessionRef ("ref"),
\* an open session no ref holds ("orphan"), a session closed earlier
\* ("closing"), or the one being opened ("opening": its promise then never
\* settles, which ends the connect() call).
CanEnd(src) ==
    CASE src = "ref" -> sessionRef = "live"
      [] src = "orphan" -> orphanSessions > 0
      [] src = "closing" -> closeInflight
      [] src = "opening" -> connectPc = "awaitSession"

SessionEnds(src) ==
    /\ CanEnd(src)
    /\ sessionRef' = IF src = "ref" THEN "dead" ELSE sessionRef
    /\ orphanSessions' = IF src = "orphan" THEN orphanSessions - 1 ELSE orphanSessions
    /\ connectPc' = IF src = "opening" THEN "idle" ELSE connectPc
    /\ UNCHANGED <<connectClosure, connects>>

\* onclose: setIsConnected(false); stopAudio().
OnClose ==
    \E src \in {"ref", "orphan", "closing"} :
        /\ SessionEnds(src)
        /\ closeInflight' = IF src = "closing" THEN FALSE ELSE closeInflight
        /\ isConnected' = FALSE
        /\ StopAudio(src # "closing")
        /\ UNCHANGED error

\* onerror without its setError(...).
OnError_KeepsError ==
    \E src \in {"ref", "orphan", "opening"} :
        /\ SessionEnds(src)
        /\ closeInflight' = TRUE
        /\ error' = error
        /\ isConnected' = FALSE
        /\ StopAudio(src # "opening")

\* onerror: setError(...); setIsConnected(false); stopAudio().  The transport
\* follows an error event by a close event.
OnError ==
    \E src \in {"ref", "orphan", "opening"} :
        /\ SessionEnds(src)
        /\ closeInflight' = TRUE
        /\ error' = "connection"
        /\ isConnected' = FALSE
        /\ StopAudio(src # "opening")

----------------------------------------------------------------------------
(* onmessage *)

\* The handler throws while it handles the payload: atob rejects the text,
\* the Int16Array view rejects an odd byte length, or createBuffer rejects a
\* length of 0.  onmessage is async: the throw ends the handler, nothing else.
Throws(m) ==
    /\ m.hasAudio
    /\ \/ ~FrameDecodes(m.audio)
       \/ audioContextRef /\ FrameSamples(m.audio) = 0

\* The payload reaches source.start.
Schedules(m) ==
    /\ m.hasAudio
    /\ FrameDecodes(m.audio)
    /\ audioContextRef
    /\ FrameSamples(m.audio) > 0

\* source.start(audioContextRef.current.currentTime): the clock is not consulted.
StartTime_IgnoresClock == currentTime

\* const startTime = Math.max(audioContextRef.current.currentTime, nextStartTimeRef.current)
StartTime == Max(currentTime, nextStartTimeRef)

\* The segment is started at the sink's current time whatever the clock says.
NewSegment_AtSinkTime(m) ==
    [start |-> currentTime, dur |-> Duration(FrameSamples(m.audio))]

NewSegment(m) ==
    [start |-> StartTime, dur |-> Duration(FrameSamples(m.audio))]

\* The transcription entries a message appends to the log.
Transcripts(m) ==
    (IF m.modelText THEN <<"model">> ELSE <<>>)
    \o (IF m.userText THEN <<"user">> ELSE <<>>)

\* The interruption branch taken without looking at serverContent.interrupted.
Interrupts_Unconditional(m) == ~Throws(m)

\* The handler reaches the interruption branch and takes it.
Interrupts(m) == ~Throws(m) /\ m.interrupted

OnMessage(m) ==
    /\ sessionRef = "live" \/ orphanSessions > 0 \/ inflight = "message"
    /\ Schedules(m) => Len(segments) < MaxPending
    /\ ~Throws(m) => Len(messages) + Len(Transcripts(m)) <= MaxMessages
    /\ inflight' = IF sessionRef = "live" \/ orphanSessions > 0
                     THEN inflight ELSE "none"
    /\ isAITalking' = IF Interrupts(m) THEN FALSE
                      ELSE IF m.hasAudio THEN TRUE ELSE isAITalking
    /\ volume' = IF Interrupts(m) THEN Zero
                 ELSE IF m.hasAudio /\ FrameDecodes(m.audio) THEN OutputRms(m.audio)
                 ELSE volume
    /\ nextStartTimeRef' = IF Interrupts(m) THEN 0
                           ELSE IF Schedules(m) THEN SegmentEnd(NewSegment(m))
                           ELSE nextStartTimeRef
    /\ segments' = IF Schedules(m) THEN Append(segments, NewSegment(m)) ELSE segments
    /\ messages' = IF Throws(m) THEN messages ELSE messages \o Transcripts(m)
    /\ lastEnd' = IF Interrupts(m) THEN -1
                   ELSE IF Schedules(m) THEN SegmentEnd(NewSegment(m))
                   ELSE lastEnd
    /\ UNCHANGED <<isConnected, isUserTalking, error, sessionRef, audioContextRef,
                   streamRef, processorRef, userTalkingTimeoutRef, connectVars,
                   tapHandler, orphanTaps, orphanContexts, orphanStreams,
                   orphanSessions, currentTime, closeInflight, tornDown, sinceLoud,
                   codecVars>>

\* Remove the i-th element of a sequence.
Without(q, i) == [j \in 1..(Len(q) - 1) |-> IF j < i THEN q[j] ELSE q[j + 1]]

\* source.onended: a segment of the current context has finished rendering
\* (i > 0), or an ended event dispatched before its context went away is
\* handled now (i = 0).
OnEnded(i) ==
    /\ IF i = 0
         THEN /\ inflight = "ended"
              /\ inflight' = "none"
              /\ segments' = segments
         ELSE /\ i \in 1..Len(segments)
              /\ SegmentEnd(segments[i]) <= currentTime
              /\ segments' = Without(segments, i)
              /\ inflight' = inflight
    /\ IF audioContextRef /\ currentTime >= nextStartTimeRef - EndEpsilon
         THEN isAITalking' = FALSE /\ volume' = Zero
         ELSE UNCHANGED <<isAITalking, volume>>
    /\ UNCHANGED <<isConnected, isUserTalking, messages, error, sessionRef,
                   audioContextRef, streamRef, nextStartTimeRef, processorRef,
                   userTalkingTimeoutRef, connectVars, tapHandler, orphanTaps,
                   orphanContexts, orphanStreams, orphanSessions, currentTime,
                   closeInflight, historyVars, codecVars>>

----------------------------------------------------------------------------
(* capture, hangover timer, text *)

\* rms > 0.01
AboveThreshold(rms) == RatLess(Threshold, rms)

\* setTimeout without the clearTimeout before it: the timer armed earlier
\* still runs at its own deadline.
ArmedTimer_KeepsEarlier(h) ==
    IF userTalkingTimeoutRef.pending
      THEN userTalkingTimeoutRef
      ELSE [pending |-> TRUE, left |-> Hangover, closure |-> Captured(h),
            stale |-> FALSE]

\* The timer setTimeout(..., 500) arms from a handler whose closure is h.
ArmedTimer(h) ==
    [pending |-> TRUE, left |-> Hangover, closure |-> Captured(h), stale |-> FALSE]

\* processor.onaudioprocess with the closure of handler h, raised by the tap
\* in processorRef, by a live tap no ref holds, or dispatched before its tap
\* was released.  isAITalking inside the handler is the value the connect()
\* call captured, not the current state.
OnAudioProcess(block, h) ==
    LET live == (processorRef /\ tapHandler = h) \/ orphanTaps[h] > 0
        rms == InputRms(block)
    IN
    /\ h # "none"
    /\ live \/ inflight = h
    /\ inflight' = IF live THEN inflight ELSE "none"
    /\ IF sessionRef # "null"
         THEN /\ volume' = IF ~Captured(h) THEN rms ELSE volume
              /\ IF AboveThreshold(rms)
                   THEN /\ isUserTalking' = TRUE
                        /\ userTalkingTimeoutRef' = ArmedTimer(h)
                        /\ sinceLoud' = 0
                   ELSE UNCHANGED <<isUserTalking, userTalkingTimeoutRef, sinceLoud>>
         ELSE UNCHANGED <<volume, isUserTalking, userTalkingTimeoutRef, sinceLoud>>
    /\ UNCHANGED <<isConnected, isAITalking, messages, error, sessionRef,
                   audioContextRef, streamRef, nextStartTimeRef, processorRef,
                   connectVars, tapHandler, orphanTaps, orphanContexts,
                   orphanStreams, orphanSessions, currentTime, segments,
                   closeInflight, tornDown, lastEnd, codecVars>>

\* The callback of the hangover timer, run when its 500 ms have passed.
OnUserTalkingTimeout ==
    /\ userTalkingTimeoutRef.pending
    /\ userTalkingTimeoutRef.left = 0
    /\ isUserTalking' = FALSE
    /\ volume' = IF ~userTalkingTimeoutRef.closure THEN Zero ELSE volume
    /\ userTalkingTimeoutRef' = NoTimer
    /\ UNCHANGED <<isConnected, isAITalking, messages, error, sessionRef,
                   audioContextRef, streamRef, nextStartTimeRef, processorRef,
                   connectVars, worldVars, historyVars, codecVars>>

\* sendTextMessage(text): sent and logged only with a session and isConnected.
SendTextMessage ==
    /\ Len(messages) < MaxMessages
    /\ sessionRef # "null" /\ isConnected
    /\ messages' = Append(messages, "user")
    /\ UNCHANGED <<isConnected, isAITalking, isUserTalking, volume, error,
                   sessionRef, audioContextRef, streamRef, nextStartTimeRef,
                   processorRef, userTalkingTimeoutRef, connectVars, worldVars,
                   historyVars, codecVars>>

----------------------------------------------------------------------------
(* time *)

\* TickLen of time passes: the clock of the open context advances and the
\* pending timer gets nearer.  A timer that is due runs before more time passes.
Tick ==
    /\ ~(userTalkingTimeoutRef.pending /\ userTalkingTimeoutRef.left = 0)
    /\ audioContextRef => currentTime < MaxTime
    /\ audioContextRef \/ userTalkingTimeoutRef.pending
    /\ currentTime' = IF audioContextRef THEN currentTime + TickLen ELSE currentTime
    /\ userTalkingTimeoutRef' =
         IF userTalkingTimeoutRef.pending
           THEN [userTalkingTimeoutRef EXCEPT !.left = Max(0, @ - TickLen)]
           ELSE userTalkingTimeoutRef
    /\ sinceLoud' = IF sinceLoud = -1 THEN -1
                    ELSE Min(sinceLoud + TickLen, Hangover + TickLen)
    /\ UNCHANGED <<isConnected, isAITalking, isUserTalking, volume, messages, error,
                   sessionRef, audioContextRef, streamRef, nextStartTimeRef,
                   processorRef, connectVars, tapHandler, orphanTaps,
                   orphanContexts, orphanStreams, orphanSessions, segments,
                   inflight, closeInflight, tornDown, lastEnd, codecVars>>

----------------------------------------------------------------------------
(* Specification *)

Next ==
    \/ ConnectStart
    \/ MicGranted
    \/ MicDenied
    \/ SessionOpened
    \/ SessionRejected
    \/ Disconnect
    \/ OnClose
    \/ OnError
    \/ \E m \in InboundMessages : OnMessage(m)
    \/ \E i \in 0..MaxPending : OnEnded(i)
    \/ \E block \in InputBlocks, h \in Handlers : OnAudioProcess(block, h)
    \/ OnUserTalkingTimeout
    \/ SendTextMessage
    \/ Tick

Spec == Init /\ [][Next]_vars

\* The hook in a running browser: the clock of an open context advances, and
\* the event loop runs every callback that is due (an ended event of a
\* finished segment, the hangover timer).
LiveSpec ==
    /\ Init
    /\ [][Next]_vars
    /\ WF_vars(Tick)
    /\ WF_vars(\E i \in 0..MaxPending : OnEnded(i))
    /\ WF_vars(OnUserTalkingTimeout)

----------------------------------------------------------------------------
(* The sample codec on its own *)

CodecInit ==
    /\ HookInit
    /\ inputData \in CodecBlocks
    /\ pcmData = <<>>
    /\ float32Data = <<>>

\* The loop of lines 102-105 over one block.
Encode ==
    /\ pcmData = <<>>
    /\ pcmData' = EncodeBlock(inputData)
    /\ UNCHANGED <<hookVars, connectVars, worldVars, historyVars, inputData,
                   float32Data>>

\* The loop of lines 129-133 over the bytes of the encoded block.
Decode ==
    /\ pcmData # <<>>
    /\ float32Data = <<>>
    /\ float32Data' = DecodeBlock(pcmData)
    /\ UNCHANGED <<hookVars, connectVars, worldVars, historyVars, inputData,
                   pcmData>>

CodecNext == Encode \/ Decode

CodecSpec == CodecInit /\ [][CodecNext]_vars

----------------------------------------------------------------------------
(* Properties *)

\* C1: segments scheduled one after the other with no interruption or
\* teardown in between do not start before the previous one has ended:
\* start(i+1) >= start(i) + duration(i).
C1_SegmentsInOrder ==
    [][(Len(segments') = Len(segments) + 1 /\ lastEnd # -1)
         => segments'[Len(segments')].start >= lastEnd]_vars

\* Two segments were scheduled in a row, the second after a silence gap.
C1_Witness ==
    /\ Len(segments) = 2
    /\ lastEnd = SegmentEnd(segments[2])
    /\ segments[2].start > SegmentEnd(segments[1])

\* C2: no two segments handed to the sink have intersecting render intervals
\* [start, start + duration), also after an interruption reset the clock.
C2_NoOverlap ==
    \A i, j \in 1..Len(segments) :
        i < j => \/ SegmentEnd(segments[i]) <= segments[j].start
                 \/ SegmentEnd(segments[j]) <= segments[i].start

\* C3: once a message with interrupted = true has been handled, the clock is
\* 0, the output state is Idle and the volume is 0, whatever else it carried.
C3_InterruptResets ==
    [][\A m \in InboundMessages :
         (m.interrupted /\ OnMessage(m))
           => (nextStartTimeRef' = 0 /\ ~isAITalking' /\ volume' = Zero)]_vars

\* C4: while the output state is Talking, neither a capture callback nor the
\* hangover timer changes the displayed volume.
C4_OutputHasPriority ==
    [][(isAITalking /\ (\/ OnUserTalkingTimeout
                        \/ \E block \in InputBlocks, h \in Handlers :
                              OnAudioProcess(block, h)))
         => volume' = volume]_vars

\* C5: with no teardown since the last block above the threshold, observed at
\* time t, the input state is Talking before t + hangover and Idle after it,
\* and while it is Talking the timer's deadline is t + hangover for the latest
\* such t.
C5_Hysteresis ==
    sinceLoud # -1 =>
        /\ sinceLoud < Hangover => isUserTalking
        /\ sinceLoud > Hangover => ~isUserTalking
        /\ isUserTalking =>
             /\ userTalkingTimeoutRef.pending
             /\ userTalkingTimeoutRef.left = Hangover - sinceLoud

\* The hangover ran out with no teardown: the input state went back to Idle.
C5_Witness == sinceLoud > Hangover /\ ~isUserTalking /\ ~tornDown

\* C6: in each direction the state goes from Idle to Talking only in a step
\* that processes a block whose RMS is above the threshold.
C6_TalkingOnlyAboveThreshold ==
    [][/\ (~isUserTalking /\ isUserTalking')
            => \E block \in InputBlocks, h \in Handlers :
                  OnAudioProcess(block, h) /\ AboveThreshold(InputRms(block))
       /\ (~isAITalking /\ isAITalking')
            => \E m \in InboundMessages :
                  /\ OnMessage(m)
                  /\ m.hasAudio /\ FrameDecodes(m.audio)
                  /\ AboveThreshold(OutputRms(m.audio))]_vars

\* C7: from a teardown until the next connect() the audio state is that of a
\* fresh instance: clock 0, both states Idle, volume 0, tap, context and
\* stream released.
C7_FreshAfterTeardown == tornDown => Audio = FreshAudio

\* C8: a hangover timer armed before a teardown never runs its callback.
C8_NoStaleTimerFires ==
    [][OnUserTalkingTimeout => ~userTalkingTimeoutRef.stale]_vars

\* C9: stopAudio on a fresh instance releases nothing (there is nothing it
\* could call a release on) and leaves it fresh; in every state, a second
\* stopAudio right after a first releases nothing and leaves the same state.
C9_StopIdempotent ==
    LET once == stopAudio(Audio)
        twice == stopAudio(once.audio)
    IN  /\ stopAudio(FreshAudio) = [audio |-> FreshAudio, released |-> {}]
        /\ twice.audio = once.audio
        /\ twice.released = {}
        /\ once.released =
             {r \in {"tap", "context", "stream"} :
                \/ r = "tap" /\ processorRef
                \/ r = "context" /\ audioContextRef
                \/ r = "stream" /\ streamRef}

\* stopAudio has run on a started pipeline and left a fresh state.
C9_Witness ==
    tornDown /\ Audio = FreshAudio /\ connects > 0 /\ connectPc = "idle"

\* A payload the decoder rejects.
Malformed(m) == m.hasAudio /\ ~FrameDecodes(m.audio)

\* C10: handling a message with a malformed payload schedules nothing and
\* otherwise does what the same message without the payload would do: clock,
\* output state and volume change only by its interrupted flag, and its
\* transcriptions are logged.
C10_MalformedFrameDropped ==
    [][\A m \in InboundMessages :
         (Malformed(m) /\ OnMessage(m)) =>
            /\ segments' = segments
            /\ nextStartTimeRef' = (IF m.interrupted THEN 0 ELSE nextStartTimeRef)
            /\ isAITalking' = (IF m.interrupted THEN FALSE ELSE isAITalking)
            /\ volume' = (IF m.interrupted THEN Zero ELSE volume)
            /\ Len(messages) + Len(Transcripts(m)) <= MaxMessages
                 => messages' = messages \o Transcripts(m)]_vars

\* C11: an error event leaves the audio in the teardown state (clock 0, both
\* states Idle, volume 0, tap, context and stream released), the connection
\* marked disconnected and the connection error set; a close event does the
\* same but leaves the error as it was.  Neither starts a connect() call, and
\* the connection is marked connected only by a connect() call whose session
\* opens.
C11_ErrorAndCloseTearDown ==
    [][/\ OnError =>
            /\ Audio' = FreshAudio
            /\ ~isConnected'
            /\ error' = "connection"
            /\ connects' = connects
            /\ connectPc' \in {connectPc, "idle"}
       /\ OnClose =>
            /\ Audio' = FreshAudio
            /\ ~isConnected'
            /\ error' = error
            /\ connects' = connects
            /\ connectPc' = connectPc
       /\ (~isConnected /\ isConnected') => SessionOpened]_vars

\* An open session raised its error event and then its close event.
C11_Witness ==
    /\ error = "connection"
    /\ sessionRef = "dead"
    /\ ~closeInflight
    /\ ~isConnected
    /\ Audio = FreshAudio

\* C12: when the microphone request of a connect() call fails, the call ends
\* there: the connect error is set, no session is opened or stored, the
\* connection flag is not touched and no stream is acquired.  A microphone
\* request is pending only after a connect() call started one, and a session
\* is awaited only once the microphone was granted.
C12_MicFailureIsTerminal ==
    [][/\ MicDenied =>
            /\ error' = "connect"
            /\ connectPc' = "idle"
            /\ UNCHANGED <<isConnected, sessionRef, orphanSessions, streamRef,
                           orphanStreams, processorRef, connects>>
       /\ (connectPc # "awaitMic" /\ connectPc' = "awaitMic") => ConnectStart
       /\ (connectPc # "awaitSession" /\ connectPc' = "awaitSession") => MicGranted
       /\ SessionOpened => connectPc = "awaitSession"]_vars

\* The microphone request of the connect() call was refused.
C12_Witness ==
    /\ error = "connect"
    /\ connectPc = "idle"
    /\ connects > 0
    /\ audioContextRef
    /\ ~streamRef
    /\ sessionRef = "null"
    /\ ~isConnected

\* A message that carries transcription text and nothing else.
TranscriptionOnly(m) ==
    ~m.hasAudio /\ ~m.interrupted /\ (m.modelText \/ m.userText)

\* C15: handling a message that carries only transcription text appends its
\* entries to the message log and leaves the clock, both activity states, the
\* volume and the scheduled segments as they were.
C15_TranscriptionOnlyLogs ==
    [][\A m \in InboundMessages :
         (TranscriptionOnly(m) /\ OnMessage(m)) =>
            /\ messages' = messages \o Transcripts(m)
            /\ Len(messages') > Len(messages)
            /\ UNCHANGED <<nextStartTimeRef, isAITalking, isUserTalking, volume,
                           segments>>]_vars

\* A transcription was logged while the output was Talking with a segment
\* scheduled and the clock ahead.
C15_Witness ==
    /\ messages = <<"model">>
    /\ isAITalking
    /\ volume # Zero
    /\ nextStartTimeRef > 0
    /\ segments # <<>>

\* A step that handles a message whose interruption branch is taken.
InterruptionStep == \E m \in InboundMessages : Interrupts(m) /\ OnMessage(m)

\* A step in which stopAudio runs.
TeardownStep == Disconnect \/ OnClose \/ OnError

\* C16: the clock never goes down except to 0, and it is set to 0 only by a
\* step that handles an interruption or by a teardown; a step that schedules a
\* segment (with no interruption in the same message) raises it.
C16_ClockMonotone ==
    [][/\ nextStartTimeRef' < nextStartTimeRef =>
            /\ nextStartTimeRef' = 0
            /\ InterruptionStep \/ TeardownStep
       /\ \A m \in InboundMessages :
            (Schedules(m) /\ ~m.interrupted /\ OnMessage(m))
              => nextStartTimeRef' > nextStartTimeRef]_vars

\* The clock was raised twice by two segments scheduled without a gap.
C16_Witness ==
    /\ Len(segments) = 2
    /\ segments[1].dur < TimeRes
    /\ segments[2].start = SegmentEnd(segments[1])
    /\ nextStartTimeRef = SegmentEnd(segments[2])

\* C17: scheduling a block of n samples at sink time now with the clock at c
\* hands the sink one more segment with start = max(now, c) and duration
\* n / 24000 and (unless the same message is an interruption) leaves the clock
\* at start + duration; with now <= c the segment starts at the end of the
\* previous one; a 1 s block at time 0 and clock 0 starts at 0 and leaves the
\* clock at 1 s, and a 1 s block at time 0 and clock 1 s starts at 1 s and
\* leaves the clock at 2 s.
C17_ScheduleArithmetic ==
    [][\A m \in InboundMessages :
         (Schedules(m) /\ OnMessage(m)) =>
            LET n == FrameSamples(m.audio)
                g == segments'[Len(segments')]
            IN  /\ segments' = Append(segments, g)
                /\ g.start = Max(currentTime, nextStartTimeRef)
                /\ g.dur * PlaybackRate = n * TimeRes
                /\ ~m.interrupted => nextStartTimeRef' = g.start + g.dur
                /\ currentTime <= nextStartTimeRef => g.start = nextStartTimeRef
                /\ (lastEnd # -1 /\ currentTime <= lastEnd) => g.start = lastEnd
                /\ (n = PlaybackRate /\ currentTime = 0 /\ ~m.interrupted) =>
                      /\ nextStartTimeRef = 0 =>
                            (g.start = 0 /\ nextStartTimeRef' = TimeRes)
                      /\ nextStartTimeRef = TimeRes =>
                            (g.start = TimeRes /\ nextStartTimeRef' = 2 * TimeRes)]_vars

\* Two 1 s blocks were scheduled back to back at time 0 from clock 0.
C17_Witness ==
    /\ currentTime = 0
    /\ segments = << [start |-> 0, dur |-> TimeRes],
                     [start |-> TimeRes, dur |-> TimeRes] >>
    /\ nextStartTimeRef = 2 * TimeRes

\* C18 as stated: an ended callback forces the output state to Idle and the
\* volume to 0 exactly when the sink exists and its current time is within
\* 0.1 s of the clock, on either side; otherwise it changes neither.
C18_WithinEpsilonEitherSide ==
    [][\A i \in 0..MaxPending :
         OnEnded(i) =>
            IF audioContextRef
               /\ 10 * Abs(currentTime - nextStartTimeRef) <= TimeRes
              THEN ~isAITalking' /\ volume' = Zero
              ELSE UNCHANGED <<isAITalking, volume>>]_vars

\* C18: an ended callback forces the output state to Idle and the volume to 0
\* exactly when the sink exists and its current time is no more than 0.1 s
\* before the clock (at the clock - 0.1 s or anywhere later); when the sink is
\* gone or its current time is more than 0.1 s before the clock, the callback
\* changes neither the output state nor the volume.
C18_EndOfUtterance ==
    [][\A i \in 0..MaxPending :
         OnEnded(i) =>
            IF audioContextRef
               /\ 10 * currentTime >= 10 * nextStartTimeRef - TimeRes
              THEN ~isAITalking' /\ volume' = Zero
              ELSE UNCHANGED <<isAITalking, volume>>]_vars

\* An ended callback forced the output state to Idle less than 0.1 s before
\* the clock, with the segment that ends at the clock still to be rendered.
C18_Witness ==
    /\ audioContextRef
    /\ ~isAITalking
    /\ volume = Zero
    /\ Len(segments) = 1
    /\ SegmentEnd(segments[1]) = nextStartTimeRef
    /\ currentTime < nextStartTimeRef
    /\ 10 * currentTime >= 10 * nextStartTimeRef - TimeRes

\* |a - b| for rationals.
RatDist(a, b) ==
    LET d == RatAdd(a, RatScale(-1, b)) IN <<Abs(d[1]), d[2]>>

\* -1 <= x <= 1
InUnit(x) == ~RatLess(<<1, 1>>, x) /\ ~RatLess(x, <<-1, 1>>)

\* C13 as stated: a sample x of [-1, 1], encoded and decoded again, comes
\* back as y with |x - y| <= 1/32768.
C13_RoundTripWithinOneStep ==
    float32Data # <<>> =>
        \A i \in 1..Len(inputData) :
            InUnit(inputData[i]) =>
                ~RatLess(Rat(1, 32768), RatDist(inputData[i], float32Data[i]))

\* C13: a sample x of [-1, 1], encoded and decoded again, comes back as y
\* with |x - y| < 2/32768.
C13_RoundTripWithinTwoSteps ==
    float32Data # <<>> =>
        \A i \in 1..Len(inputData) :
            InUnit(inputData[i]) =>
                RatLess(RatDist(inputData[i], float32Data[i]), Rat(2, 32768))

\* A sample of [-1, 1] came back more than 1/32768 away from itself.
C13_Witness ==
    /\ float32Data # <<>>
    /\ Len(inputData) = 1
    /\ InUnit(inputData[1])
    /\ RatLess(Rat(1, 32768), RatDist(inputData[1], float32Data[1]))

\* The bytes of pcmData.buffer.
BlockBytes(pcm) ==
    [j \in 1..(2 * Len(pcm)) |->
        Int16Bytes(pcm[(j + 1) \div 2])[IF j % 2 = 1 THEN 1 ELSE 2]]

HalfAndFullScale == <<Rat(1, 2), Rat(-1, 2), Rat(1, 1), Rat(-1, 1)>>

Silence == <<Zero, Zero, Zero, Zero>>

\* What C14 says of an encoded block, given the encoding it expects of the
\* half and full scale block: that block encodes to it, silence encodes to
\* four zeros (8 zero bytes), and a sample above 1 or below -1 encodes as 1
\* or -1 does.
EncodesAs(expected) ==
    pcmData # <<>> =>
        /\ inputData = HalfAndFullScale => pcmData = expected
        /\ inputData = Silence =>
              /\ pcmData = <<0, 0, 0, 0>>
              /\ BlockBytes(pcmData) = <<0, 0, 0, 0, 0, 0, 0, 0>>
        /\ \A i \in 1..Len(inputData) :
              /\ RatLess(<<1, 1>>, inputData[i]) => pcmData[i] = 32767
              /\ RatLess(inputData[i], <<-1, 1>>) => pcmData[i] = -32767

\* C14 as stated: [0.5, -0.5, 1.0, -1.0] encodes to
\* [16383, -16384, 32767, -32767], silence to zeros, and samples out of
\* [-1, 1] as the nearest bound.
C14_EncodeRoundsDown == EncodesAs(<<16383, -16384, 32767, -32767>>)

\* C14: [0.5, -0.5, 1.0, -1.0] encodes to [16383, -16383, 32767, -32767]
\* (truncation toward zero on both signs), silence to four zeros (8 zero
\* bytes), and samples out of [-1, 1] as the nearest bound.
C14_EncodeTruncates == EncodesAs(<<16383, -16383, 32767, -32767>>)

\* The half and full scale block was encoded.
C14_Witness ==
    /\ inputData = HalfAndFullScale
    /\ pcmData = <<16383, -16383, 32767, -32767>>

\* A step that handles a message carrying an audio payload.
AudioFrameStep == \E m \in InboundMessages : m.hasAudio /\ OnMessage(m)

\* C19: if from some point on no message with an audio payload is handled and
\* every segment handed to the sink has had its ended callback run, then from
\* some point on the output state is Idle for good.
C19_OutputEventuallyIdle ==
    (<>[][~AudioFrameStep]_vars /\ <>[](segments = <<>>))
        => <>[](~isAITalking)

\* Contexts, streams and taps that were created and not released.
OpenContexts == (IF audioContextRef THEN 1 ELSE 0) + orphanContexts

LiveStreams == (IF streamRef THEN 1 ELSE 0) + orphanStreams

LiveTaps ==
    (IF processorRef THEN 1 ELSE 0) + orphanTaps["none"] + orphanTaps["F"]
    + orphanTaps["T"]

\* C20: at most one context, one stream and one tap are unreleased at any
\* time, and none is while the last thing that happened to the pipeline is a
\* teardown or a connect() call that ended in its catch block.
C20_AtMostOneAndNoneLeft ==
    /\ OpenContexts <= 1
    /\ LiveStreams <= 1
    /\ LiveTaps <= 1
    /\ (tornDown \/ (connectPc = "idle" /\ error = "connect")) =>
          (OpenContexts = 0 /\ LiveStreams = 0 /\ LiveTaps = 0)

====
